---- MODULE Spec2Model ----
(***************************************************************************)
(* Session controller of dongdong-strapi-v5-app: customLogin, refreshToken *)
(* and logout, with the module-level configuration they read.              *)
(*                                                                         *)
(* Strings that the code inspects character by character (the expires      *)
(* strings) are sequences of one-character strings.  The clock is the      *)
(* jsonwebtoken clock, in whole seconds.  A signed token is the record of  *)
(* what its string encodes (payload and signing secret): two token strings *)
(* are equal exactly when these records are equal.  The response messages  *)
(* are written in ASCII; the Korean literals are quoted next to each.      *)
(***************************************************************************)
EXTENDS Integers, Sequences, FiniteSets, TLC

VARIABLES env, phase, refreshMaxAge, now, users, lastLogin, resp

vars == <<env, phase, refreshMaxAge, now, users, lastLogin, resp>>

(* ------------------------------ bounds -------------------------------- *)

\* the clock runs from 0 to MaxTime seconds
MaxTime == 2

\* the user table starts with the users 1..NumUsers
NumUsers == 2

\* the expires strings given to the parser have at most MaxStrLen characters
MaxStrLen == 3

(* --------------------------- configuration ---------------------------- *)

Digits == {"0", "1", "2", "3", "4", "5", "6", "7", "8", "9"}

DigitVal(c) ==
  CASE c = "0" -> 0 [] c = "1" -> 1 [] c = "2" -> 2 [] c = "3" -> 3
    [] c = "4" -> 4 [] c = "5" -> 5 [] c = "6" -> 6 [] c = "7" -> 7
    [] c = "8" -> 8 [] c = "9" -> 9

\* Number(match[1]) on a string of decimal digits
RECURSIVE DecimalValue(_)
DecimalValue(ds) ==
  IF ds = <<>> THEN 0
  ELSE 10 * DecimalValue(SubSeq(ds, 1, Len(ds) - 1)) + DigitVal(ds[Len(ds)])

AllDigits(ds) == \A i \in 1..Len(ds) : ds[i] \in Digits

\* process.env.X || fallback : an unset and an empty variable both fall back
OrDefault(value, fallback) == IF value = <<>> THEN fallback ELSE value

REFRESH_SECRET == OrDefault(env.REFRESH_JWT_SECRET,
            <<"c", "h", "a", "n", "g", "e", "-", "m", "e">>)

ACCESS_EXPIRES_IN == OrDefault(env.ACCESS_TOKEN_EXPIRES, <<"1", "5", "m">>)

REFRESH_EXPIRES_IN == OrDefault(env.REFRESH_TOKEN_EXPIRES, <<"7", "d">>)

REFRESH_COOKIE_NAME == "refreshToken"

\* the map { s: 1000, m: 60_000, h: 3_600_000, d: 86_400_000 }
UnitFactor_Mut(unit) ==
  CASE unit = "s" -> 1000 [] unit = "m" -> 60000
    [] unit = "h" -> 360000 [] unit = "d" -> 86400000

UnitFactor(unit) ==
  CASE unit = "s" -> 1000 [] unit = "m" -> 60000
    [] unit = "h" -> 3600000 [] unit = "d" -> 86400000

Units == {"s", "m", "h", "d"}

\* expires.match(/^(\d+)([smhd])$/)
ExpiresMatches(expires) ==
  /\ Len(expires) >= 2
  /\ AllDigits(SubSeq(expires, 1, Len(expires) - 1))
  /\ expires[Len(expires)] \in Units

\* parseExpiresToMs: ok = FALSE stands for the thrown Error
parseExpiresToMs(expires) ==
  IF ~ExpiresMatches(expires)
  THEN [ok |-> FALSE, ms |-> 0]
  ELSE [ok |-> TRUE,
        ms |-> DecimalValue(SubSeq(expires, 1, Len(expires) - 1))
                 * UnitFactor(expires[Len(expires)])]

\* const refreshMaxAge = parseExpiresToMs(REFRESH_EXPIRES_IN), at module load
refreshMaxAge_Mut == parseExpiresToMs(ACCESS_EXPIRES_IN)

refreshMaxAgeInit == parseExpiresToMs(REFRESH_EXPIRES_IN)

\* What jsonwebtoken makes of an expiresIn string (its timespan helper):
\* digits alone are milliseconds, digits and a unit are scaled, anything
\* else is no timespan and makes sign throw (of its units, the ones that
\* can be written in the alphabet of EnvChoices).
SignTimespan(expiresIn) ==
  IF expiresIn # <<>> /\ AllDigits(expiresIn)
  THEN [ok |-> TRUE, ms |-> DecimalValue(expiresIn)]
  ELSE IF /\ Len(expiresIn) >= 2
          /\ AllDigits(SubSeq(expiresIn, 1, Len(expiresIn) - 1))
          /\ expiresIn[Len(expiresIn)] \in {"s", "m", "h", "d"}
  THEN LET n == DecimalValue(SubSeq(expiresIn, 1, Len(expiresIn) - 1))
           u == expiresIn[Len(expiresIn)]
       IN  [ok |-> TRUE,
            ms |-> CASE u = "s" -> n * 1000
                     [] u = "m" -> n * 60000
                     [] u = "h" -> n * 3600000
                     [] u = "d" -> n * 86400000]
  ELSE [ok |-> FALSE, ms |-> 0]

(* ------------------------------- tokens ------------------------------- *)

\* the secret of the users-permissions jwt service (internal to Strapi)
AccessSecret == <<"strapi">>

NoToken ==
  [kind |-> "none", id |-> 0, type |-> "undefined", iat |-> 0, exp |-> 0,
   secret |-> <<>>]

\* a string that is no JWT at all
MalformedToken == [NoToken EXCEPT !.kind = "malformed"]

\* jwt.sign(payload, secret, {expiresIn}) at the current clock
Sign(id, type, secret, expiresIn) ==
  [kind |-> "jwt", id |-> id, type |-> type, iat |-> now,
   exp |-> now + (SignTimespan(expiresIn).ms \div 1000), secret |-> secret]

\* services.jwt.issue({id}, {expiresIn}) throws on a failure of the
\* service (fault) or when expiresIn is no timespan
JwtIssueThrows(expiresIn, fault) ==
  fault = "issue" \/ ~SignTimespan(expiresIn).ok

JwtIssue(id, expiresIn) == Sign(id, "undefined", AccessSecret, expiresIn)

\* jwt.verify(token, secret) throws: malformed, bad signature, or expired
JwtVerifyThrows_Mut(token, secret) ==
  \/ token.kind # "jwt"
  \/ token.exp <= now

\* jwt.verify without the exp check
JwtVerifyThrows_NoExpiry(token, secret) ==
  \/ token.kind # "jwt"
  \/ token.secret # secret

\* jwt.verify followed by a look at a server-side session that logout ends
JwtVerifyThrows_Revoked(token, secret) ==
  \/ token.kind # "jwt"
  \/ token.secret # secret
  \/ token.exp <= now
  \/ resp.op = "logout"

JwtVerifyThrows(token, secret) ==
  \/ token.kind # "jwt"
  \/ token.secret # secret
  \/ token.exp <= now

(* -------------------------------- users ------------------------------- *)

SensitiveFields == {"password", "resetPasswordToken", "confirmationToken"}

\* bcrypt hash of a password, as validatePassword compares it
Hash(password) == <<"hash", password>>

Username(id) == <<"u", id>>

Email(id) == <<"e", id>>

Password(id) == <<"pw", id>>

\* the stored record of user id; which optional fields it has varies
User(id) ==
  [id |-> id, username |-> Username(id), email |-> Email(id),
   password |-> Hash(Password(id))]
  @@ (IF id % 2 = 1 THEN [resetPasswordToken |-> <<"rpt", id>>]
                    ELSE [blocked |-> FALSE])
  @@ (IF id % 3 # 0 THEN [confirmationToken |-> <<"ct", id>>]
                    ELSE [provider |-> "local"])

\* null, the result of findOne when no row matches
NoUser == [f \in {} |-> 0]

\* findOne({ where: { $or: [{ email }, { username }] } })
FindByIdentifier(identifier) ==
  IF \E u \in users : u.email = identifier \/ u.username = identifier
  THEN CHOOSE u \in users : u.email = identifier \/ u.username = identifier
  ELSE NoUser

\* findOne({ where: { id } })
FindById_Mut(id) ==
  IF users # {} THEN CHOOSE u \in users : TRUE ELSE NoUser

\* the user remembered from the login instead of the stored row
FindById_Cached(id) ==
  IF lastLogin.path = "ok" /\ lastLogin.body.user.id = id
  THEN User(id)
  ELSE IF \E u \in users : u.id = id
  THEN CHOOSE u \in users : u.id = id
  ELSE NoUser

FindById(id) ==
  IF \E u \in users : u.id = id
  THEN CHOOSE u \in users : u.id = id
  ELSE NoUser

\* services.user.validatePassword(password, hash)
ValidatePassword_Mut(password, hash) == TRUE

ValidatePassword(password, hash) == Hash(password) = hash

sanitizeUser_Mut(user) ==
  IF user = NoUser THEN user
  ELSE [f \in DOMAIN user \ {"password", "resetPasswordToken"} |-> user[f]]

sanitizeUser(user) ==
  IF user = NoUser THEN user
  ELSE [f \in DOMAIN user \ SensitiveFields |-> user[f]]

(* ------------------------------ responses ----------------------------- *)

\* the value "" that logout writes into the cookie
EmptyValue == [NoToken EXCEPT !.kind = "empty"]

NoCookieWrite ==
  [set |-> FALSE, name |-> "", value |-> NoToken, httpOnly |-> FALSE,
   secure |-> FALSE, sameSite |-> "", path |-> "", maxAge |-> 0]

NoBody == [kind |-> "none", jwt |-> NoToken, user |-> NoUser]

\* a handler that has not answered: nothing set on ctx.  protocol and
\* secure are the transport signals once the handler has read them for
\* isHttps; after says which request was answered just before a refresh
Blank(op) ==
  [op |-> op, path |-> "", threw |-> FALSE, status |-> 0, message |-> "",
   body |-> NoBody, setCookie |-> NoCookieWrite, dbLookups |-> 0,
   jwtIssued |-> 0, presented |-> NoToken, afterLogin |-> FALSE,
   protocol |-> "", secure |-> FALSE, after |-> "other"]

\* ctx.badRequest(message): status 400 and an error body
BadRequest(r, path, message) ==
  [r EXCEPT !.path = path, !.status = 400, !.message = message,
            !.body = [NoBody EXCEPT !.kind = "error"]]

\* ctx.unauthorized(message): status 401 and an error body
Unauthorized(r, path, message) ==
  [r EXCEPT !.path = path, !.status = 401, !.message = message,
            !.body = [NoBody EXCEPT !.kind = "error"]]

\* an exception leaves the handler; ctx is as it was
Throws(r, path) == [r EXCEPT !.path = path, !.threw = TRUE]

\* line 128, "identifier, password" and the Korean for "required"
LoginMissingMsg == "identifier, password required"

\* line 144, the Korean for "wrong id/password"
LoginUserNotFoundMsg_Mut == "user does not exist"

LoginUserNotFoundMsg == "wrong id/password"

\* line 158, the same literal as line 144
LoginBadPasswordMsg == "wrong id/password"

\* line 223, "refresh token" and the Korean for "none"
RefreshNoCookieMsg == "no refresh token"

\* line 233, the Korean for "incorrect refresh token"
RefreshWrongTypeMsg == "incorrect refresh token"

\* line 241, the Korean for "the user does not exist"
RefreshNoUserMsg == "user does not exist"

\* line 255, the Korean for "expired or invalid refresh token"
RefreshCaughtMsg == "expired or invalid refresh token"

(* ------------------------------- handlers ----------------------------- *)

Protocols == {"http", "https"}

\* ctx.request.protocol === "https" || ctx.request.secure === true (login)
LoginIsHttps(protocol, secure) == protocol = "https" \/ secure = TRUE

\* the same test in logout
LogoutIsHttps_Mut(protocol, secure) == protocol = "https"

LogoutIsHttps(protocol, secure) == protocol = "https" \/ secure = TRUE

\* ctx.cookies.set(REFRESH_COOKIE_NAME, refreshToken, {...}) in customLogin
LoginCookie_Mut(token, isHttps) ==
  [set |-> TRUE, name |-> REFRESH_COOKIE_NAME, value |-> token,
   httpOnly |-> TRUE, secure |-> isHttps, sameSite |-> "none",
   path |-> "/", maxAge |-> refreshMaxAge]

LoginCookie(token, isHttps) ==
  [set |-> TRUE, name |-> REFRESH_COOKIE_NAME, value |-> token,
   httpOnly |-> TRUE, secure |-> isHttps,
   sameSite |-> IF isHttps THEN "none" ELSE "lax",
   path |-> "/", maxAge |-> refreshMaxAge]

\* ctx.cookies.set(REFRESH_COOKIE_NAME, "", {...}) in logout
LogoutCookie_Mut(isHttps) ==
  [set |-> TRUE, name |-> REFRESH_COOKIE_NAME, value |-> EmptyValue,
   httpOnly |-> TRUE, secure |-> isHttps,
   sameSite |-> IF isHttps THEN "none" ELSE "lax",
   path |-> "/api", maxAge |-> 0]

LogoutCookie_Lax(isHttps) ==
  [set |-> TRUE, name |-> REFRESH_COOKIE_NAME, value |-> EmptyValue,
   httpOnly |-> TRUE, secure |-> isHttps, sameSite |-> "lax",
   path |-> "/", maxAge |-> 0]

LogoutCookie(isHttps) ==
  [set |-> TRUE, name |-> REFRESH_COOKIE_NAME, value |-> EmptyValue,
   httpOnly |-> TRUE, secure |-> isHttps,
   sameSite |-> IF isHttps THEN "none" ELSE "lax",
   path |-> "/", maxAge |-> 0]

LoginFaults == {"none", "db", "password", "issue"}

\* ctx.body = { jwt: accessToken, user: sanitizeUser(user) } in customLogin
LoginBody_Mut(accessToken, refreshToken, user) ==
  [kind |-> "auth", jwt |-> refreshToken, user |-> sanitizeUser(user)]

LoginBody(accessToken, refreshToken, user) ==
  [kind |-> "auth", jwt |-> accessToken, user |-> sanitizeUser(user)]

\* customLogin(ctx): the response to { identifier, password } arriving with
\* (protocol, secure); fault names the collaborator that fails, if any
customLogin(identifier, password, protocol, secure, fault) ==
  LET r0 == Blank("login") IN
  IF identifier = <<>> \/ password = <<>>
  THEN BadRequest(r0, "badRequest", LoginMissingMsg)
  ELSE IF fault = "db" THEN Throws(r0, "threwLookup")
  ELSE
  LET user == FindByIdentifier(identifier)
      r1 == [r0 EXCEPT !.dbLookups = 1] IN
  IF user = NoUser
  THEN Unauthorized(r1, "noUser", LoginUserNotFoundMsg)
  ELSE IF fault = "password" THEN Throws(r1, "threwValidate")
  ELSE IF ~ValidatePassword(password, user.password)
  THEN Unauthorized(r1, "badPassword", LoginBadPasswordMsg)
  ELSE IF JwtIssueThrows(ACCESS_EXPIRES_IN, fault)
  THEN Throws(r1, "threwIssue")
  ELSE IF ~SignTimespan(REFRESH_EXPIRES_IN).ok THEN Throws(r1, "threwSign")
  ELSE
  LET accessToken == JwtIssue(user.id, ACCESS_EXPIRES_IN)
      refreshToken == Sign(user.id, "refresh", REFRESH_SECRET,
                           REFRESH_EXPIRES_IN)
      isHttps == LoginIsHttps(protocol, secure)
  IN  [r1 EXCEPT !.path = "ok", !.status = 200, !.jwtIssued = 1,
                 !.protocol = protocol, !.secure = secure,
                 !.setCookie = LoginCookie(refreshToken, isHttps),
                 !.body = LoginBody(accessToken, refreshToken, user)]

RefreshFaults == {"none", "db", "issue"}

\* payload.type !== "refresh" is the rejection; this is its negation
PurposeOk_Mut(payload) == TRUE

PurposeOk(payload) == payload.type = "refresh"

\* refreshToken has no ctx.cookies.set call: it writes no cookie
RefreshCookie_Mut(token) == LoginCookie(token, FALSE)

RefreshCookie(token) == NoCookieWrite

\* catch { return ctx.unauthorized(...) }: the try block holds jwt.verify,
\* findOne and jwt.issue alike
RefreshCaught_Mut(r, path) ==
  IF path = "caughtVerify" THEN Unauthorized(r, path, RefreshCaughtMsg)
  ELSE Throws(r, path)

RefreshCaught(r, path) == Unauthorized(r, path, RefreshCaughtMsg)

\* refreshToken(ctx): the response to a request whose refreshToken cookie
\* is token (NoToken or EmptyValue: ctx.cookies.get gives a falsy value)
refreshToken(token, fault) ==
  LET r0 == [Blank("refresh") EXCEPT !.presented = token,
                                     !.setCookie = RefreshCookie(token)] IN
  IF token.kind \in {"none", "empty"}
  THEN Unauthorized(r0, "noCookie", RefreshNoCookieMsg)
  ELSE IF JwtVerifyThrows(token, REFRESH_SECRET)
  THEN RefreshCaught(r0, "caughtVerify")
  ELSE IF ~PurposeOk(token)
  THEN Unauthorized(r0, "wrongType", RefreshWrongTypeMsg)
  ELSE
  LET r1 == [r0 EXCEPT !.dbLookups = 1] IN
  IF fault = "db" THEN RefreshCaught(r1, "caughtLookup")
  ELSE
  LET user == FindById(token.id) IN
  IF user = NoUser
  THEN Unauthorized(r1, "noUser", RefreshNoUserMsg)
  ELSE IF JwtIssueThrows(ACCESS_EXPIRES_IN, fault)
  THEN RefreshCaught(r1, "caughtIssue")
  ELSE [r1 EXCEPT !.path = "ok", !.status = 200, !.jwtIssued = 1,
                  !.body = [kind |-> "auth",
                            jwt |-> JwtIssue(user.id, ACCESS_EXPIRES_IN),
                            user |-> sanitizeUser(user)]]

\* logout(ctx): the request's cookie (token) is never read
logout(token, protocol, secure) ==
  [Blank("logout") EXCEPT
     !.presented = token, !.path = "ok", !.status = 200,
     !.protocol = protocol, !.secure = secure,
     !.setCookie = LogoutCookie(LogoutIsHttps(protocol, secure)),
     !.body = [NoBody EXCEPT !.kind = "ok"]]

(* ---------------------------- the environment ------------------------- *)

\* the values the three environment variables are started with
Environment(access, refresh, secret) ==
  [ACCESS_TOKEN_EXPIRES |-> access, REFRESH_TOKEN_EXPIRES |-> refresh,
   REFRESH_JWT_SECRET |-> secret]

\* nothing set; short lifetimes and the secret of the access authority;
\* a malformed access lifetime; two malformed renewal lifetimes
EnvChoices ==
  {Environment(<<>>, <<>>, <<>>),
   Environment(<<"1", "s">>, <<"2", "s">>, AccessSecret),
   Environment(<<"x">>, <<"2", "s">>, <<>>),
   Environment(<<>>, <<"2">>, <<>>),
   Environment(<<"1", "s">>, <<"2", "x">>, <<>>)}

UserIds == 1..NumUsers

\* what user i types as identifier: the username or the email
LoginName(i) == IF i % 2 = 1 THEN Username(i) ELSE Email(i)

\* identifiers a login request may carry: none, one that no user has, or
\* the login name of a user that was ever stored
Identifiers == {<<>>, Username(0)} \cup {LoginName(i) : i \in UserIds}

\* passwords a login request may carry with an identifier: none, a wrong
\* one, or the password of the user the identifier names
PasswordsFor(identifier) ==
  {<<>>, Password(0)}
    \cup {Password(i) : i \in {j \in UserIds : LoginName(j) = identifier}}

\* a renewal-shaped token signed by someone who does not know the secret
ForgedToken ==
  Sign(1, "refresh", <<"o", "t", "h", "e", "r">>, <<"1", "s">>)

\* the refreshToken cookie values a request may carry
Presentable ==
  {NoToken, EmptyValue, MalformedToken, ForgedToken,
   lastLogin.setCookie.value, lastLogin.body.jwt}

\* what the client holds of a response: the status, body and cookie
Delivered(r) == [r EXCEPT !.protocol = "", !.secure = FALSE]

(* ------------------------------- actions ------------------------------ *)

Init ==
  /\ env \in EnvChoices
  /\ phase = "boot"
  /\ refreshMaxAge = 0
  /\ now = 0
  /\ users = {User(i) : i \in UserIds}
  /\ lastLogin = Blank("none")
  /\ resp = Blank("none")

\* loading the module: the top-level const initialisers run once
Boot ==
  /\ phase = "boot"
  /\ LET parsed == refreshMaxAgeInit IN
       /\ phase' = IF parsed.ok THEN "running" ELSE "crashed"
       /\ refreshMaxAge' = parsed.ms
  /\ UNCHANGED <<env, now, users, lastLogin, resp>>

\* a second passes; the last response has been delivered
Tick ==
  /\ phase = "running"
  /\ now < MaxTime
  /\ now' = now + 1
  /\ resp' = Blank("none")
  /\ UNCHANGED <<env, phase, refreshMaxAge, users, lastLogin>>

\* an account is deleted from the user table (outside this controller)
DeleteUser ==
  /\ phase = "running"
  /\ \E u \in users : users' = users \ {u}
  /\ resp' = Blank("none")
  /\ UNCHANGED <<env, phase, refreshMaxAge, now, lastLogin>>

Login ==
  /\ phase = "running"
  /\ \E identifier \in Identifiers, protocol \in Protocols,
        secure \in BOOLEAN, fault \in LoginFaults :
       \E password \in PasswordsFor(identifier) :
         LET r == customLogin(identifier, password, protocol, secure, fault)
         IN
         /\ resp' = r
         /\ lastLogin' = IF r.path = "ok" THEN Delivered(r) ELSE lastLogin
  /\ UNCHANGED <<env, phase, refreshMaxAge, now, users>>

Refresh ==
  /\ phase = "running"
  /\ \E token \in Presentable, fault \in RefreshFaults :
       resp' = [refreshToken(token, fault) EXCEPT
                  !.afterLogin = (resp.op = "login" /\ resp.path = "ok"),
                  !.after = IF resp.path = "ok" THEN resp.op ELSE "other"]
  /\ UNCHANGED <<env, phase, refreshMaxAge, now, users, lastLogin>>

Logout ==
  /\ phase = "running"
  /\ \E token \in {NoToken, MalformedToken, lastLogin.setCookie.value},
        protocol \in Protocols, secure \in BOOLEAN :
       resp' = logout(token, protocol, secure)
  /\ UNCHANGED <<env, phase, refreshMaxAge, now, users, lastLogin>>

Next == Boot \/ Tick \/ DeleteUser \/ Login \/ Refresh \/ Logout

Spec == Init /\ [][Next]_vars

(* ------------------- the parser on arbitrary strings ------------------ *)

\* characters of the expires strings tried: digits, the four units, and a
\* character that is neither
Chars == {"0", "1", "2", "s", "m", "h", "d", "x"}

StringsUpTo(n) == UNION {[1..k -> Chars] : k \in 0..n}

\* The products are computed in 32-bit integers here and in doubles, exact
\* to 2^53, in the program: a string whose number times the largest factor
\* does not fit 32 bits is left out.
InRange(str) ==
  (Len(str) >= 2 /\ AllDigits(SubSeq(str, 1, Len(str) - 1))) =>
    DecimalValue(SubSeq(str, 1, Len(str) - 1))
      <= (2^30 - 1 + 2^30) \div 86400000

DurationStrings == {str \in StringsUpTo(MaxStrLen) : InRange(str)}

\* the process is started with any of these strings as
\* REFRESH_TOKEN_EXPIRES
InitParse ==
  /\ env \in {Environment(<<>>, str, <<>>) : str \in DurationStrings}
  /\ phase = "boot"
  /\ refreshMaxAge = 0
  /\ now = 0
  /\ users = {User(i) : i \in UserIds}
  /\ lastLogin = Blank("none")
  /\ resp = Blank("none")

\* loading the module is the one call of parseExpiresToMs
NextParse == Boot

SpecParse == InitParse /\ [][NextParse]_vars

TypeOK ==
  /\ phase \in {"boot", "running", "crashed"}
  /\ now \in 0..MaxTime
  /\ resp.op \in {"none", "login", "refresh", "logout"}

(* ------------------------------- claims ------------------------------- *)

\* what a client sees of a response
Observable(r) ==
  [threw |-> r.threw, status |-> r.status, message |-> r.message,
   body |-> r.body, setCookie |-> r.setCookie]

\* C1: a login rejected for an unknown identifier and a login rejected for
\* a wrong password of a registered identifier give the client the same
\* response: status 401 and the same message text.
C1_SameRejection ==
  (resp.op = "login" /\ resp.path \in {"noUser", "badPassword"}) =>
    /\ resp.status = 401
    /\ \A protocol \in Protocols, secure \in BOOLEAN :
         /\ Observable(customLogin(Username(0), Password(0), protocol,
                                   secure, "none")) = Observable(resp)
         /\ \A u \in users :
              Observable(customLogin(LoginName(u.id), Password(0), protocol,
                                     secure, "none")) = Observable(resp)

C1_Witness ==
  /\ resp.op = "login"
  /\ resp.path = "badPassword"
  /\ resp.message = LoginBadPasswordMsg

\* C2 as stated: a refresh handled right after a successful login, with
\* the cookie that login set and no collaborator failing, succeeds for the
\* same user id with an access token string other than login's.
C2_Original ==
  (/\ resp.op = "refresh"
   /\ resp.afterLogin
   /\ resp.presented = lastLogin.setCookie.value
   /\ resp.path \notin {"caughtLookup", "caughtIssue"}) =>
    /\ resp.path = "ok"
    /\ resp.body.jwt.id = lastLogin.body.jwt.id
    /\ resp.body.jwt # lastLogin.body.jwt

\* C2 amended: a refresh presenting the cookie a successful login set
\* succeeds when the token is unexpired, the user is still stored and no
\* collaborator fails; its access token is for the same user id, and its
\* string equals login's exactly when both were issued in the same second.
C2_RefreshAfterLogin ==
  (/\ resp.op = "refresh"
   /\ lastLogin.path = "ok"
   /\ resp.presented = lastLogin.setCookie.value) =>
    /\ resp.path \in {"ok", "caughtVerify", "noUser", "caughtLookup",
                      "caughtIssue"}
    /\ resp.path = "caughtVerify" => resp.presented.exp <= now
    /\ resp.path = "noUser" => \A u \in users : u.id # resp.presented.id
    /\ resp.path = "ok" =>
         /\ resp.status = 200
         /\ resp.body.jwt.kind = "jwt"
         /\ resp.body.jwt.id = lastLogin.body.jwt.id
         /\ resp.body.user.id = lastLogin.body.user.id
         /\ (resp.body.jwt = lastLogin.body.jwt) <=>
              (now = lastLogin.body.jwt.iat)

C2_Witness ==
  /\ resp.op = "refresh"
  /\ resp.afterLogin
  /\ resp.presented = lastLogin.setCookie.value
  /\ resp.path = "ok"
  /\ resp.body.jwt = lastLogin.body.jwt

\* C3: no request ends in an exception leaving the handler: each ends with
\* status 200 (success), 400 (bad request) or 401 (unauthorized).
C3_NoUncaughtThrow ==
  resp.op \in {"login", "refresh", "logout"} =>
    /\ ~resp.threw
    /\ resp.status \in {200, 400, 401}

\* C4: a token lifetime string that is not <digits><s|m|h|d> stops the
\* process at start-up, and no request of a started process fails on a
\* lifetime string that is no timespan.
C4_FailFast ==
  /\ (/\ phase # "boot"
      /\ \/ ~ExpiresMatches(ACCESS_EXPIRES_IN)
         \/ ~ExpiresMatches(REFRESH_EXPIRES_IN)) => phase = "crashed"
  /\ phase = "running" =>
       /\ resp.path # "threwSign"
       /\ resp.path \in {"threwIssue", "caughtIssue"} =>
            SignTimespan(ACCESS_EXPIRES_IN).ok

\* C5: a refresh without cookie, or with a token that is malformed, signed
\* under another secret or expired, is answered 401 with no access token
\* minted and no user in the body.
C5_RefreshRejects ==
  (/\ resp.op = "refresh"
   /\ \/ resp.presented.kind \in {"none", "empty", "malformed"}
      \/ resp.presented.secret # REFRESH_SECRET
      \/ resp.presented.exp <= now) =>
    /\ resp.status = 401
    /\ resp.jwtIssued = 0
    /\ resp.body.kind = "error"
    /\ resp.body.jwt = NoToken
    /\ resp.body.user = NoUser

C5_Witness ==
  /\ resp.op = "refresh"
  /\ resp.presented.kind = "jwt"
  /\ resp.presented.type = "refresh"
  /\ resp.presented.secret = REFRESH_SECRET
  /\ resp.presented.exp <= now
  /\ resp.status = 401

\* C6: a refresh with a token that verifies under the renewal secret but
\* whose payload type is not "refresh" is answered 401 without a user
\* lookup and without minting, and with another message than the one for
\* a failed verification.
C6_WrongPurpose ==
  (/\ resp.op = "refresh"
   /\ resp.presented.kind = "jwt"
   /\ resp.presented.secret = REFRESH_SECRET
   /\ resp.presented.exp > now
   /\ resp.presented.type # "refresh") =>
    /\ resp.status = 401
    /\ resp.dbLookups = 0
    /\ resp.jwtIssued = 0
    /\ resp.body.jwt = NoToken
    /\ resp.message # RefreshCaughtMsg

C6_Witness ==
  /\ resp.op = "refresh"
  /\ resp.presented = lastLogin.body.jwt
  /\ resp.presented.kind = "jwt"
  /\ resp.presented.secret = REFRESH_SECRET
  /\ resp.path = "wrongType"

\* C7: no response to a refresh, successful or not, writes the cookie.
C7_RefreshWritesNoCookie ==
  resp.op = "refresh" => resp.setCookie = NoCookieWrite

C7_Witness ==
  /\ resp.op = "refresh"
  /\ resp.path = "ok"
  /\ resp.presented = lastLogin.setCookie.value
  /\ ~resp.setCookie.set

\* C8: every logout answers {ok: true}, whatever cookie the request
\* carried, and clears (empty value, maxAge 0) a cookie with the name and
\* the path of the cookie login sets.
C8_LogoutClears ==
  resp.op = "logout" =>
    /\ ~resp.threw
    /\ resp.status = 200
    /\ resp.body.kind = "ok"
    /\ resp.setCookie.set
    /\ resp.setCookie.value = EmptyValue
    /\ resp.setCookie.maxAge = 0
    /\ \A isHttps \in BOOLEAN :
         /\ resp.setCookie.name = LoginCookie(NoToken, isHttps).name
         /\ resp.setCookie.path = LoginCookie(NoToken, isHttps).path
    /\ lastLogin.path = "ok" =>
         /\ resp.setCookie.name = lastLogin.setCookie.name
         /\ resp.setCookie.path = lastLogin.setCookie.path

C8_Witness ==
  /\ resp.op = "logout"
  /\ resp.presented = NoToken
  /\ lastLogin.path = "ok"
  /\ resp.body.kind = "ok"

\* C9: the cookie of a successful login has maxAge equal to
\* parseExpiresToMs of the configured renewal lifetime, which is also the
\* lifetime (exp - iat, in ms) of the renewal token in the cookie.
C9_MaxAgeIsLifetime ==
  (resp.op = "login" /\ resp.path = "ok") =>
    /\ resp.setCookie.set
    /\ parseExpiresToMs(REFRESH_EXPIRES_IN).ok
    /\ resp.setCookie.maxAge = parseExpiresToMs(REFRESH_EXPIRES_IN).ms
    /\ resp.setCookie.maxAge =
         1000 * (resp.setCookie.value.exp - resp.setCookie.value.iat)

C9_Witness ==
  /\ resp.op = "login"
  /\ resp.path = "ok"
  /\ env.REFRESH_TOKEN_EXPIRES # <<>>
  /\ resp.setCookie.maxAge > 0

\* C10: the user in the body of a successful login or refresh has none of
\* the fields password, resetPasswordToken, confirmationToken.
C10_NoSensitiveField ==
  (resp.op \in {"login", "refresh"} /\ resp.path = "ok") =>
    /\ resp.body.user # NoUser
    /\ DOMAIN resp.body.user
         \cap {"password", "resetPasswordToken", "confirmationToken"} = {}

C10_Witness ==
  /\ resp.op = "login"
  /\ resp.path = "ok"
  /\ \E u \in users :
       /\ u.id = resp.body.user.id
       /\ {"password", "resetPasswordToken", "confirmationToken"}
            \subseteq DOMAIN u

\* C11: no response body carries the renewal token: a body holds nothing,
\* an error, {ok: true}, or the access token issued for the user it names;
\* a signed token is written into a cookie only by login, as the httpOnly
\* renewal cookie.
C11_RenewalTokenOnlyInCookie ==
  /\ resp.body.kind \in {"none", "error", "ok", "auth"}
  /\ resp.body.jwt.type # "refresh"
  /\ resp.body.kind # "auth" =>
       resp.body.jwt = NoToken /\ resp.body.user = NoUser
  /\ resp.body.kind = "auth" =>
       /\ resp.body.jwt = JwtIssue(resp.body.user.id, ACCESS_EXPIRES_IN)
       /\ resp.body.jwt # resp.setCookie.value
       /\ resp.body.jwt # resp.presented \/ resp.presented.type # "refresh"
  /\ resp.setCookie.value.kind = "jwt" =>
       /\ resp.op = "login"
       /\ resp.setCookie.httpOnly
       /\ resp.setCookie.value.type = "refresh"

C11_Witness ==
  /\ resp.op = "login"
  /\ resp.path = "ok"
  /\ resp.setCookie.value.type = "refresh"
  /\ resp.body.jwt.kind = "jwt"

\* C12: a login that does not succeed mints nothing, sets no cookie and
\* puts no token and no user in the body; a missing identifier or password
\* is answered 400, an unknown identifier or a wrong password 401; a cookie
\* is set exactly when the body carries the access token.
C12_FailedLoginHasNoEffect ==
  resp.op = "login" =>
    /\ resp.path # "ok" =>
         /\ resp.setCookie = NoCookieWrite
         /\ resp.jwtIssued = 0
         /\ resp.body.jwt = NoToken
         /\ resp.body.user = NoUser
    /\ resp.path = "badRequest" => resp.status = 400
    /\ resp.path \in {"noUser", "badPassword"} => resp.status = 401
    /\ resp.setCookie.set <=> resp.body.jwt.kind = "jwt"
    /\ \A identifier \in Identifiers, protocol \in Protocols,
          secure \in BOOLEAN :
         \A password \in PasswordsFor(identifier) :
           LET r == customLogin(identifier, password, protocol, secure,
                                "none")
               known == \E u \in users : LoginName(u.id) = identifier
               right == \E u \in users :
                          /\ LoginName(u.id) = identifier
                          /\ password = Password(u.id)
           IN  /\ (identifier = <<>> \/ password = <<>>) =>
                    r.status = 400
               /\ (identifier # <<>> /\ password # <<>> /\ ~known) =>
                    r.status = 401
               /\ (password # <<>> /\ known /\ ~right) => r.status = 401
               /\ r.status # 200 =>
                    /\ r.setCookie = NoCookieWrite
                    /\ r.jwtIssued = 0
                    /\ r.body.jwt = NoToken
                    /\ r.body.user = NoUser

C12_Witness ==
  /\ resp.op = "login"
  /\ resp.path = "badRequest"
  /\ resp.status = 400
  /\ lastLogin.path = "ok"

\* C13: the transport detector of login and the one of logout both give
\* TRUE exactly when the protocol is "https" or the secure signal is true,
\* and the secure flag of every cookie written is that result for the
\* signals of its request.
C13_TransportDetector ==
  /\ LoginIsHttps("https", FALSE) /\ LogoutIsHttps("https", FALSE)
  /\ LoginIsHttps("http", TRUE) /\ LogoutIsHttps("http", TRUE)
  /\ ~LoginIsHttps("http", FALSE) /\ ~LogoutIsHttps("http", FALSE)
  /\ \A protocol \in Protocols, secure \in BOOLEAN :
       LoginIsHttps(protocol, secure) = LogoutIsHttps(protocol, secure)
  /\ resp.setCookie.set =>
       resp.setCookie.secure = (resp.protocol = "https" \/ resp.secure)

C13_Witness ==
  /\ resp.op = "logout"
  /\ resp.protocol = "http"
  /\ resp.secure
  /\ resp.setCookie.secure

\* the number a string of decimal digits denotes, by place value
DigitSeq == <<"0", "1", "2", "3", "4", "5", "6", "7", "8", "9">>

RECURSIVE PlaceSum(_, _)
PlaceSum(str, n) ==
  IF n = 0 THEN 0
  ELSE (CHOOSE j \in 1..10 : DigitSeq[j] = str[n]) - 1
         + 10 * PlaceSum(str, n - 1)

WellFormedDuration(str) ==
  /\ Len(str) >= 2
  /\ \A i \in 1..(Len(str) - 1) : \E j \in 1..10 : DigitSeq[j] = str[i]
  /\ str[Len(str)] \in {"s", "m", "h", "d"}

ExpectedMs(str) ==
  PlaceSum(str, Len(str) - 1)
    * (CASE str[Len(str)] = "s" -> 1000
         [] str[Len(str)] = "m" -> 60000
         [] str[Len(str)] = "h" -> 3600000
         [] str[Len(str)] = "d" -> 86400000)

\* C14: for a string <decimal integer><s|m|h|d> the parser returns the
\* integer times 1000, 60000, 3600000 or 86400000; for any other string it
\* throws (the process does not start), with no partial parse and no
\* default.
C14_DurationParser ==
  phase # "boot" =>
    IF WellFormedDuration(REFRESH_EXPIRES_IN)
    THEN /\ phase = "running"
         /\ parseExpiresToMs(REFRESH_EXPIRES_IN).ok
         /\ refreshMaxAge = ExpectedMs(REFRESH_EXPIRES_IN)
    ELSE /\ phase = "crashed"
         /\ ~parseExpiresToMs(REFRESH_EXPIRES_IN).ok

C14_Witness ==
  /\ phase = "running"
  /\ env.REFRESH_TOKEN_EXPIRES = <<"1", "2", "h">>
  /\ refreshMaxAge = 43200000

\* C15 as stated: the cookie a logout writes has the path, httpOnly, secure
\* and sameSite of the cookie the login of that session wrote, whatever the
\* transport signals of the two requests.
C15_Original ==
  (/\ resp.op = "logout"
   /\ lastLogin.path = "ok"
   /\ resp.presented = lastLogin.setCookie.value) =>
    /\ resp.setCookie.path = lastLogin.setCookie.path
    /\ resp.setCookie.httpOnly = lastLogin.setCookie.httpOnly
    /\ resp.setCookie.secure = lastLogin.setCookie.secure
    /\ resp.setCookie.sameSite = lastLogin.setCookie.sameSite

\* C15 amended: path and httpOnly of the logout cookie always equal those
\* of the login cookie; secure and sameSite equal them exactly when the
\* transport detector gives the logout request the result it gave the
\* login request.
C15_LogoutAttributes ==
  (/\ resp.op = "logout"
   /\ lastLogin.path = "ok"
   /\ resp.presented = lastLogin.setCookie.value) =>
    /\ resp.setCookie.path = lastLogin.setCookie.path
    /\ resp.setCookie.httpOnly = lastLogin.setCookie.httpOnly
    /\ (resp.protocol = "https" \/ resp.secure) = lastLogin.setCookie.secure
         => /\ resp.setCookie.secure = lastLogin.setCookie.secure
            /\ resp.setCookie.sameSite = lastLogin.setCookie.sameSite
    /\ (resp.protocol = "https" \/ resp.secure) # lastLogin.setCookie.secure
         => /\ resp.setCookie.secure # lastLogin.setCookie.secure
            /\ resp.setCookie.sameSite # lastLogin.setCookie.sameSite

C15_Witness ==
  /\ resp.op = "logout"
  /\ lastLogin.path = "ok"
  /\ resp.presented = lastLogin.setCookie.value
  /\ lastLogin.setCookie.secure
  /\ resp.protocol = "http"
  /\ resp.secure
  /\ resp.setCookie.sameSite = "none"

\* C16: with t the second of a successful login and L the configured
\* renewal lifetime in seconds, the token of that login expires at t + L
\* whatever was refreshed in between: presented at or after t + L it is
\* answered 401, presented before t + L (user stored, collaborators
\* answering) it succeeds.
C16_FixedSession ==
  LET t == lastLogin.setCookie.value.iat
      L == parseExpiresToMs(REFRESH_EXPIRES_IN).ms \div 1000
  IN  (/\ resp.op = "refresh"
       /\ lastLogin.path = "ok"
       /\ resp.presented = lastLogin.setCookie.value) =>
        /\ resp.presented.exp = t + L
        /\ now >= t + L =>
             /\ resp.status = 401
             /\ resp.jwtIssued = 0
             /\ resp.body.jwt = NoToken
        /\ (/\ now < t + L
            /\ \E u \in users : u.id = resp.presented.id
            /\ resp.path \notin {"caughtLookup", "caughtIssue"}) =>
             /\ resp.path = "ok"
             /\ resp.status = 200

C16_Witness ==
  /\ resp.op = "refresh"
  /\ resp.after = "refresh"
  /\ resp.presented = lastLogin.setCookie.value
  /\ now > lastLogin.setCookie.value.iat
  /\ resp.path = "ok"

\* C17: a refresh presenting an unexpired renewal token signed under the
\* renewal secret for a stored user succeeds (collaborators answering),
\* whatever request was answered before it, a logout included; the
\* response is the handler's result for that token, clock and user table.
C17_Stateless ==
  resp.op = "refresh" =>
    /\ (/\ resp.presented.kind = "jwt"
        /\ resp.presented.secret = REFRESH_SECRET
        /\ resp.presented.type = "refresh"
        /\ resp.presented.exp > now
        /\ \E u \in users : u.id = resp.presented.id
        /\ resp.path \notin {"caughtLookup", "caughtIssue"}) =>
         /\ resp.path = "ok"
         /\ resp.status = 200
         /\ resp.body.jwt.id = resp.presented.id
    /\ \E fault \in RefreshFaults :
         Observable(refreshToken(resp.presented, fault)) = Observable(resp)

C17_Witness ==
  /\ resp.op = "refresh"
  /\ resp.after = "logout"
  /\ resp.presented = lastLogin.setCookie.value
  /\ resp.path = "ok"

\* C18: a refresh with a valid renewal token looks the user up by the
\* token's id: when no such user is stored it is answered 401 and mints
\* nothing; when it succeeds, the user in the body is the stored record
\* of that id without the three sensitive fields.
C18_RefreshLooksUpUser ==
  (/\ resp.op = "refresh"
   /\ resp.presented.kind = "jwt"
   /\ resp.presented.secret = REFRESH_SECRET
   /\ resp.presented.type = "refresh"
   /\ resp.presented.exp > now) =>
    /\ resp.dbLookups = 1
    /\ (\A u \in users : u.id # resp.presented.id) =>
         /\ resp.status = 401
         /\ resp.jwtIssued = 0
         /\ resp.body.jwt = NoToken
         /\ resp.body.user = NoUser
    /\ resp.path = "ok" =>
         \E u \in users :
           /\ u.id = resp.presented.id
           /\ resp.body.jwt.id = u.id
           /\ resp.body.user =
                [f \in DOMAIN u \ {"password", "resetPasswordToken",
                                   "confirmationToken"} |-> u[f]]

C18_Witness ==
  /\ resp.op = "refresh"
  /\ resp.presented = lastLogin.setCookie.value
  /\ resp.presented.exp > now
  /\ resp.path = "noUser"
  /\ resp.status = 401

\* C19: a cookie is written by login and logout only, always named
\* refreshToken, httpOnly, with path "/", with secure the detector's
\* result for the request, and sameSite "none" when secure and "lax"
\* when not.
C19_CookieAttributes ==
  resp.setCookie.set =>
    /\ resp.op \in {"login", "logout"}
    /\ resp.setCookie.name = "refreshToken"
    /\ resp.setCookie.httpOnly
    /\ resp.setCookie.path = "/"
    /\ resp.setCookie.secure = (resp.protocol = "https" \/ resp.secure)
    /\ resp.setCookie.secure => resp.setCookie.sameSite = "none"
    /\ ~resp.setCookie.secure => resp.setCookie.sameSite = "lax"

C19_Witness ==
  /\ resp.op = "login"
  /\ resp.setCookie.set
  /\ resp.protocol = "http"
  /\ ~resp.secure
  /\ resp.setCookie.sameSite = "lax"

\* C20: in refresh, a failure of the user lookup or of the token issuing
\* after a successful verification gives the very response a token that
\* fails verification gives (401, "expired or invalid refresh token"); in
\* login a failure of the lookup, of the password check or of the issuing
\* leaves the handler as an exception, with nothing set.
C20_CollaboratorFailures ==
  /\ (/\ resp.op = "refresh"
      /\ resp.presented.kind = "jwt"
      /\ resp.presented.secret = REFRESH_SECRET
      /\ resp.presented.type = "refresh"
      /\ resp.presented.exp > now) =>
       LET bad == Observable(refreshToken(MalformedToken, "none")) IN
       /\ bad.status = 401
       /\ bad.message = "expired or invalid refresh token"
       /\ ~bad.threw
       /\ Observable(refreshToken(resp.presented, "db")) = bad
       /\ (\E u \in users : u.id = resp.presented.id) =>
            Observable(refreshToken(resp.presented, "issue")) = bad
       /\ resp.path \in {"caughtLookup", "caughtIssue"} =>
            Observable(resp) = bad
  /\ resp.op = "login" =>
       /\ resp.threw =>
            /\ resp.status = 0
            /\ resp.body = NoBody
            /\ resp.setCookie = NoCookieWrite
       /\ \A u \in users, fault \in {"db", "password", "issue"} :
            customLogin(LoginName(u.id), Password(u.id), "http", FALSE,
                        fault).threw

C20_Witness ==
  /\ resp.op = "refresh"
  /\ resp.presented = lastLogin.setCookie.value
  /\ resp.path = "caughtIssue"
  /\ resp.message = RefreshCaughtMsg

====
